---- MODULE Spec2Model ----
(***************************************************************************)
(* Session-based authentication of the todo application: the auth          *)
(* controller (controllers/auth.js), the Passport local strategy and       *)
(* session serializer (config/passport.js), the User model                 *)
(* (models/User.js), the route guards (middleware/auth.js) and the route   *)
(* tables (routes/main.js, routes/todos.js).                               *)
(*                                                                         *)
(* Every request is a small process: it is received (session loaded,       *)
(* identity deserialized), dispatched through its route, and each          *)
(* asynchronous callback of its handler is one step.  Requests of          *)
(* different slots interleave freely at those callbacks.                   *)
(***************************************************************************)
EXTENDS Integers, Sequences, FiniteSets, TLC

VARIABLES
    users,      \* the Credential Store: the set of persisted User documents
    sessions,   \* the Session Store: token -> session record, for stored tokens
    req,        \* slot -> the request it handles and how far it got
    nextId,     \* the next fresh document id
    served,     \* requests received so far
    loggedOut,  \* history: tokens whose logout completed, no login since
    denied,     \* history: token -> URL ensureAuth last denied, "" if none
    faults      \* history: store, hash and session operations that failed

vars == <<users, sessions, req, nextId, served, loggedOut, denied, faults>>

----------------------------------------------------------------------------
(* Bounds of the model *)

\* request slots that can be in flight at the same time
NumSlots == 2
\* requests received in one behaviour
MaxRequests == 3
\* store, hash and session operations that report an error in one behaviour
MaxFaults == 1

Slots == 1..NumSlots

----------------------------------------------------------------------------
(* Strings are sequences of one-character strings *)

E_a      == <<"a", "@", "x">>
E_A      == <<"A", "@", "x">>
E_o      == <<"o", "@", "x">>
E_aSpace == <<"a", "@", "x", " ">>

P_long1 == <<"l", "o", "n", "g", "p", "a", "s", "s", "1">>
P_long2 == <<"l", "o", "n", "g", "p", "a", "s", "s", "2">>
P_short == <<"s", "h", "o", "r", "t">>
P_empty == <<>>

Tokens == {"t1", "t2"}
Salts == {"s1", "s2"}
Urls == {"/todos", "/todos?page=2"}

\* String.prototype.toLowerCase, on the alphabet of the model
LowerChar(c) ==
    CASE c = "A" -> "a"
      [] c = "O" -> "o"
      [] c = "X" -> "x"
      [] OTHER -> c

toLowerCase(s) == [i \in 1..Len(s) |-> LowerChar(s[i])]

Count(s, c) == Cardinality({i \in 1..Len(s) : s[i] = c})

\* validator.isEmail: one "@" with a non-empty local part and domain, and no
\* white space anywhere
isEmail(s) ==
    /\ Count(s, "@") = 1
    /\ Count(s, " ") = 0
    /\ s[1] # "@"
    /\ s[Len(s)] # "@"

\* validator.isEmpty
isEmpty(s) == Len(s) = 0

\* validator.isLength(s, { min })
isLength(s, min) == Len(s) >= min

\* validator.normalizeEmail(email, { gmail_remove_dots: false }): lowercases
\* the whole address; the provider-specific rewrites apply to none of the
\* domains of the model
normalizeEmail(s) == toLowerCase(s)

----------------------------------------------------------------------------
(* models/User.js *)

\* a document without a local credential (registered through a provider)
NoPassword == <<>>

\* bcrypt.hash(password, salt): the digest embeds the salt
bcryptHash(password, salt) == <<"$", salt>> \o password

\* a comparison that looks at the first characters of the password only
bcryptCompareTruncates(candidate, stored) ==
    /\ Len(stored) >= 2
    /\ stored[1] = "$"
    /\ SubSeq(stored, 3, Len(stored) - 1) = SubSeq(candidate, 1, Len(candidate) - 1)

\* bcrypt.compare(candidate, stored): recomputes with the embedded salt
bcryptCompare(candidate, stored) ==
    /\ Len(stored) >= 2
    /\ stored[1] = "$"
    /\ SubSeq(stored, 3, Len(stored)) = candidate

\* a comparePassword that accepts every candidate
comparePasswordAny(user, candidatePassword) == TRUE

\* UserSchema.methods.comparePassword
comparePassword(user, candidatePassword) ==
    bcryptCompare(candidatePassword, user.password)

\* a pre-save hook that forgets to hash
PreSaveNoHash(doc, modified, salt) == doc

\* a hook without the isModified test: it hashes whatever the field holds
PreSaveRehashes(doc, modified, salt) ==
    [doc EXCEPT !.password = bcryptHash(doc.password, salt)]

\* UserSchema.pre('save'): the document as it is handed to the insert
PreSave(doc, modified, salt) ==
    IF ~modified
    THEN doc
    ELSE [doc EXCEPT !.password = bcryptHash(doc.password, salt)]

\* a schema without the unique indexes
DuplicateKeyIgnored(store, doc) == FALSE

\* UserSchema: userName and email carry unique indexes
DuplicateKey(store, doc) ==
    \E u \in store : u.userName = doc.userName \/ u.email = doc.email

\* User.findOne({ email })
FindByEmail(email) == {u \in users : u.email = email}

\* a lookup that leaves the userName out of the $or
FindByEmailOrNameSkipsName(email, userName) ==
    {u \in users : u.email = email}

\* User.findOne({ $or: [{ email }, { userName }] })
FindByEmailOrName(email, userName) ==
    {u \in users : u.email = email \/ u.userName = userName}

\* User.findById
FindById(id) == {u \in users : u.id = id}

----------------------------------------------------------------------------
(* config/passport.js *)

\* passport.serializeUser: only the id goes into the session
serializeUser(user) == user.id

\* a deserializer whose lookup leaves the id out of the query
deserializeUserAny(id) ==
    IF users = {} THEN {} ELSE {CHOOSE u \in users : TRUE}

\* passport.deserializeUser: the documents the id resolves to
deserializeUser(id) == FindById(id)

----------------------------------------------------------------------------
(* middleware/auth.js *)

\* req.isAuthenticated(): req.user is set
isAuthenticated(user) == user # 0

\* a guard that lets every request through
ensureAuthOpen(user) == "next"

ensureAuth(user) == IF isAuthenticated(user) THEN "next" ELSE "redirect"

\* a guest guard with the test the wrong way round
ensureGuestInverted(user) == IF isAuthenticated(user) THEN "next" ELSE "redirect"

ensureGuest(user) == IF ~isAuthenticated(user) THEN "next" ELSE "redirect"

----------------------------------------------------------------------------
(* routes/main.js and routes/todos.js *)

TodoRoutes == {"getTodos", "createTodo", "markComplete", "markIncomplete",
               "deleteTodo"}

MainRoutes == {"getLogin", "postLogin", "logout", "getSignup", "postSignup"}

Routes == MainRoutes \cup TodoRoutes

\* the middleware each route table entry puts in front of its controller
GuardOf(route) == IF route = "getTodos" THEN "ensureAuth" ELSE "none"

----------------------------------------------------------------------------
(* State *)

\* the identity provisioned by a sign-in provider, without a password
ProvidedUser ==
    [id |-> 1, userName |-> "bob", email |-> E_o, password |-> NoPassword]

\* a session left in the store whose id resolves to no document any more
StaleSession == [user |-> 9, flash |-> {}, returnTo |-> ""]

NewSession == [user |-> 0, flash |-> {}, returnTo |-> ""]

NoDoc == [id |-> 0, userName |-> "", email |-> <<>>, password |-> NoPassword]

NoResp == [kind |-> "none", target |-> ""]

Redirect(target) == [kind |-> "redirect", target |-> target]

EmptyBody ==
    [email |-> <<>>, password |-> <<>>, confirmPassword |-> <<>>,
     userName |-> ""]

Idle ==
    [pc |-> "idle", route |-> "", token |-> "", url |-> "", user |-> 0,
     body |-> EmptyBody, doc |-> NoDoc, modified |-> FALSE, found |-> NoDoc,
     resp |-> NoResp, flashed |-> {}, ran |-> "", fault |-> FALSE,
     reason |-> "", compared |-> FALSE, logoutCb |-> FALSE,
     afterLogout |-> FALSE, deniedBefore |-> "", sent |-> 0, was |-> 0]

Init ==
    /\ users = {ProvidedUser}
    /\ sessions = [t \in {"t2"} |-> StaleSession]
    /\ req = [r \in Slots |-> Idle]
    /\ nextId = 2
    /\ served = 0
    /\ loggedOut = {}
    /\ denied = [t \in Tokens |-> ""]
    /\ faults = 0

LoginForm(email, password) ==
    [email |-> email, password |-> password, confirmPassword |-> <<>>,
     userName |-> ""]

\* the forms a POST /login can carry
LoginForms ==
    {LoginForm(E_a, P_long1), LoginForm(E_A, P_long1), LoginForm(E_a, P_long2),
     LoginForm(E_o, P_long1), LoginForm(E_aSpace, P_long1),
     LoginForm(E_a, P_empty)}

SignupForm(userName, email, password, confirmPassword) ==
    [email |-> email, password |-> password,
     confirmPassword |-> confirmPassword, userName |-> userName]

\* the forms a POST /signup can carry
SignupForms ==
    {SignupForm("alice", E_a, P_long1, P_long1),
     SignupForm("carol", E_A, P_long1, P_long1),
     SignupForm("bob", E_a, P_long1, P_long1),
     SignupForm("alice", E_aSpace, P_long1, P_long1),
     SignupForm("alice", E_a, P_short, P_short),
     SignupForm("alice", E_a, P_short, P_long1),
     SignupForm("alice", E_a, P_long1, P_long2)}

UrlsOf(route) == IF route = "getTodos" THEN Urls ELSE {""}

Msg(type, text, arg) == [type |-> type, msg |-> text, arg |-> arg]

\* the session of token t in a store; it is created when first written
SessionIn(store, t) == IF t \in DOMAIN store THEN store[t] ELSE NewSession

SessionOf(t) == SessionIn(sessions, t)

\* a store after writing session s under token t
PutIn(store, t, s) ==
    [x \in DOMAIN store \cup {t} |-> IF x = t THEN s ELSE store[x]]

Put(t, s) == PutIn(sessions, t, s)

\* the store after removing token t
Drop(t) == [x \in DOMAIN sessions \ {t} |-> sessions[x]]

\* req.flash(type, messages)
Flash(store, t, msgs) ==
    PutIn(store, t, [SessionIn(store, t) EXCEPT !.flash = @ \cup msgs])

\* whether an asynchronous operation reports an error now
Outcomes == IF faults < MaxFaults THEN BOOLEAN ELSE {FALSE}

Charge(err) == faults' = IF err THEN faults + 1 ELSE faults

\* the request q with its response sent
Done(q, kind, target) ==
    [q EXCEPT !.pc = "done", !.resp = [kind |-> kind, target |-> target],
              !.sent = @ + 1,
              !.body = EmptyBody, !.found = NoDoc, !.modified = FALSE,
              !.doc = [q.doc EXCEPT !.id = 0, !.password = NoPassword]]

\* next(err): the request q ends on the framework's error path
Failed(q) == [Done(q, "error", "") EXCEPT !.fault = TRUE]

----------------------------------------------------------------------------
(* server.js: the middleware every request passes before its route.  The   *)
(* session middleware loads the session of the token, passport.session()    *)
(* resolves its identity reference into req.user, and the router runs the   *)
(* guard and the controller up to its first asynchronous call.              *)

\* the slot holds no request that still has a callback to come
Free(r) == req[r].pc \in {"idle", "done"} /\ ~req[r].logoutCb

\* a request arrives and takes the first free slot
Arrive(r) ==
    /\ Free(r)
    /\ \A q \in Slots : q < r => ~Free(q)
    /\ served < MaxRequests
    /\ served' = served + 1

\* req.user as passport.session() resolves it for token t
Resolve(t) ==
    LET id == SessionOf(t).user
    IN  IF id # 0 /\ deserializeUser(id) # {} THEN id ELSE 0

\* the store once passport.session() has run: a reference that resolves to
\* no document is dropped from the session
Loaded(t) ==
    IF SessionOf(t).user # 0 /\ deserializeUser(SessionOf(t).user) = {}
    THEN Put(t, [sessions[t] EXCEPT !.user = 0])
    ELSE sessions

\* the request as its route sees it
Fresh(route, t) ==
    [Idle EXCEPT !.pc = "route", !.route = route, !.token = t,
                 !.user = Resolve(t), !.afterLogout = (t \in loggedOut)]

\* deserializeUser reports an error: the request ends with done(err)
DeserializeFails(r) ==
    /\ Arrive(r)
    /\ faults < MaxFaults
    /\ \E route \in Routes, t \in Tokens :
         /\ SessionOf(t).user # 0
         /\ req' = [req EXCEPT ![r] =
                      Failed([Idle EXCEPT !.route = route, !.token = t,
                                          !.afterLogout = (t \in loggedOut)])]
    /\ faults' = faults + 1
    /\ UNCHANGED <<users, sessions, nextId, loggedOut, denied>>

\* routes/todos.js: the guard of the route, then its controller
TodosRouter(r) ==
    /\ Arrive(r)
    /\ \E route \in TodoRoutes, t \in Tokens :
       \E url \in UrlsOf(route) :
          LET q == Fresh(route, t)
          IN  /\ sessions' = Loaded(t)
              /\ IF GuardOf(route) = "ensureAuth" /\ ensureAuth(q.user) # "next"
                 THEN /\ req' = [req EXCEPT ![r] = Done(q, "redirect", "/")]
                      /\ denied' = [denied EXCEPT ![t] = url]
                 ELSE /\ req' = [req EXCEPT ![r] =
                                   [Done(q, "handled", route) EXCEPT !.ran = route]]
                      /\ UNCHANGED denied
    /\ UNCHANGED <<users, nextId, loggedOut, faults>>

----------------------------------------------------------------------------
(* controllers/auth.js *)

\* the store after res.render: the view shows the flashed messages, once
Rendered(store, t) ==
    IF t \in DOMAIN store
    THEN [store EXCEPT ![t].flash = {}]
    ELSE store

\* a getLogin that shows the form to everybody
getLoginAlwaysRenders(r) ==
    /\ Arrive(r)
    /\ \E t \in Tokens :
          /\ req' = [req EXCEPT ![r] = Done(Fresh("getLogin", t), "render", "login")]
          /\ sessions' = Rendered(Loaded(t), t)
    /\ UNCHANGED <<users, nextId, loggedOut, denied, faults>>

getLogin(r) ==
    /\ Arrive(r)
    /\ \E t \in Tokens :
          LET q == Fresh("getLogin", t)
          IN  IF q.user # 0
              THEN /\ req' = [req EXCEPT ![r] = Done(q, "redirect", "/todos")]
                   /\ sessions' = Loaded(t)
              ELSE /\ req' = [req EXCEPT ![r] = Done(q, "render", "login")]
                   /\ sessions' = Rendered(Loaded(t), t)
    /\ UNCHANGED <<users, nextId, loggedOut, denied, faults>>

getSignup(r) ==
    /\ Arrive(r)
    /\ \E t \in Tokens :
          LET q == Fresh("getSignup", t)
          IN  IF q.user # 0
              THEN /\ req' = [req EXCEPT ![r] = Done(q, "redirect", "/todos")]
                   /\ sessions' = Loaded(t)
              ELSE /\ req' = [req EXCEPT ![r] = Done(q, "render", "signup")]
                   /\ sessions' = Rendered(Loaded(t), t)
    /\ UNCHANGED <<users, nextId, loggedOut, denied, faults>>

\* the checks of postLogin on the submitted form
LoginValidationErrors(body) ==
    (IF ~isEmail(body.email)
     THEN {Msg("errors", "Please enter a valid email address.", <<>>)}
     ELSE {})
    \cup
    (IF isEmpty(body.password)
     THEN {Msg("errors", "Password cannot be blank.", <<>>)}
     ELSE {})

\* postLogin up to the call of passport.authenticate('local', ...)
postLogin(r) ==
    /\ Arrive(r)
    /\ \E t \in Tokens, body \in LoginForms :
          LET q == Fresh("postLogin", t)
              validationErrors == LoginValidationErrors(body)
          IN  IF validationErrors # {}
              THEN /\ sessions' = Flash(Loaded(t), t, validationErrors)
                   /\ req' = [req EXCEPT ![r] =
                                [Done(q, "redirect", "/login")
                                   EXCEPT !.flashed = validationErrors,
                                          !.body = body]]
              ELSE /\ req' = [req EXCEPT ![r] =
                                [q EXCEPT !.body = [body EXCEPT !.email =
                                                      normalizeEmail(body.email)],
                                          !.pc = "strategy"]]
                   /\ sessions' = Loaded(t)
    /\ UNCHANGED <<users, nextId, loggedOut, denied, faults>>

\* a rejection that also drops the identity of the session
RejectedLogsOut(r, why, info) ==
    /\ sessions' = Flash(Put(req[r].token,
                             [SessionOf(req[r].token) EXCEPT !.user = 0]),
                         req[r].token, {info})
    /\ req' = [req EXCEPT ![r] =
                 [Done(req[r], "redirect", "/login")
                    EXCEPT !.flashed = {info}, !.reason = why]]

\* the callback postLogin hands to passport.authenticate, for a rejection
Rejected(r, why, info) ==
    /\ sessions' = Flash(sessions, req[r].token, {info})
    /\ req' = [req EXCEPT ![r] =
                 [Done(req[r], "redirect", "/login")
                    EXCEPT !.flashed = {info}, !.reason = why]]

\* LocalStrategy verify callback: User.findOne({ email: email.toLowerCase() })
StrategyFindOne(r) ==
    /\ req[r].pc = "strategy"
    /\ LET email == req[r].body.email
           hits == FindByEmail(toLowerCase(email))
       IN  \E err \in Outcomes :
             Charge(err) /\
             IF err
             THEN /\ req' = [req EXCEPT ![r] = [Failed(req[r]) EXCEPT !.reason = "error"]]
                  /\ UNCHANGED sessions
             ELSE IF hits = {}
             THEN Rejected(r, "notfound", Msg("errors", "Email not found.", email))
             ELSE \E user \in hits :
                    IF Len(user.password) = 0
                    THEN Rejected(r, "nopassword",
                                  Msg("errors", "Your account was registered using a sign-in provider.", <<>>))
                    ELSE /\ req' = [req EXCEPT ![r].pc = "compare",
                                               ![r].found = user,
                                               ![r].compared = TRUE]
                         /\ UNCHANGED sessions
    /\ UNCHANGED <<users, nextId, served, loggedOut, denied>>

\* LocalStrategy verify callback: the callback of user.comparePassword
StrategyCompare(r) ==
    /\ req[r].pc = "compare"
    /\ \E err \in Outcomes :
         Charge(err) /\
         IF err
         THEN /\ req' = [req EXCEPT ![r] = [Failed(req[r]) EXCEPT !.reason = "error"]]
              /\ UNCHANGED sessions
         ELSE IF comparePassword(req[r].found, req[r].body.password)
         THEN /\ req' = [req EXCEPT ![r].pc = "logIn",
                                    ![r].reason = "authenticated"]
              /\ UNCHANGED sessions
         ELSE Rejected(r, "mismatch",
                       Msg("errors", "Invalid email or password.", <<>>))
    /\ UNCHANGED <<users, nextId, served, loggedOut, denied>>

\* a login whose session could not be established and that redirects all
\* the same
LoginLogInIgnoresError(r) ==
    /\ req[r].pc = "logIn"
    /\ \E err \in Outcomes :
         Charge(err) /\
         IF err
         THEN /\ req' = [req EXCEPT ![r] = Done(req[r], "redirect", "/todos")]
              /\ UNCHANGED <<sessions, loggedOut, denied>>
         ELSE LET t == req[r].token
                  success == Msg("success", "Success! You are logged in.", <<>>)
                  s == [SessionOf(t) EXCEPT !.user = serializeUser(req[r].found),
                                            !.flash = @ \cup {success}]
                  target == IF s.returnTo # "" THEN s.returnTo ELSE "/todos"
              IN  /\ sessions' = Put(t, s)
                  /\ req' = [req EXCEPT ![r] =
                               [Done(req[r], "redirect", target)
                                  EXCEPT !.user = req[r].found.id,
                                         !.flashed = {success},
                                         !.deniedBefore = denied[t]]]
                  /\ loggedOut' = loggedOut \ {t}
                  /\ denied' = [denied EXCEPT ![t] = ""]
    /\ UNCHANGED <<users, nextId, served>>

\* req.logIn(user, cb) of postLogin and its callback
LoginLogIn(r) ==
    /\ req[r].pc = "logIn"
    /\ \E err \in Outcomes :
         Charge(err) /\
         IF err
         THEN /\ req' = [req EXCEPT ![r] = Failed(req[r])]
              /\ UNCHANGED <<sessions, loggedOut, denied>>
         ELSE LET t == req[r].token
                  success == Msg("success", "Success! You are logged in.", <<>>)
                  s == [SessionOf(t) EXCEPT !.user = serializeUser(req[r].found),
                                            !.flash = @ \cup {success}]
                  target == IF s.returnTo # "" THEN s.returnTo ELSE "/todos"
              IN  /\ sessions' = Put(t, s)
                  /\ req' = [req EXCEPT ![r] =
                               [Done(req[r], "redirect", target)
                                  EXCEPT !.user = req[r].found.id,
                                         !.flashed = {success},
                                         !.deniedBefore = denied[t]]]
                  /\ loggedOut' = loggedOut \ {t}
                  /\ denied' = [denied EXCEPT ![t] = ""]
    /\ UNCHANGED <<users, nextId, served>>

\* logout: req.logout(cb) and req.session.destroy(cb) are both started
logout(r) ==
    /\ Arrive(r)
    /\ \E t \in Tokens :
         /\ req' = [req EXCEPT ![r] =
                      [Fresh("logout", t) EXCEPT !.pc = "destroy", !.user = 0,
                                                 !.logoutCb = TRUE,
                                                 !.was = Resolve(t)]]
         /\ sessions' = Loaded(t)
    /\ UNCHANGED <<users, nextId, loggedOut, denied, faults>>

\* req.logout completes: the authentication data leaves the stored session,
\* then the callback logs
LogoutCb(r) ==
    /\ req[r].logoutCb
    /\ \E err \in Outcomes :
         Charge(err) /\
         LET t == req[r].token
         IN  sessions' = IF ~err /\ t \in DOMAIN sessions
                         THEN Put(t, [sessions[t] EXCEPT !.user = 0])
                         ELSE sessions
    /\ req' = [req EXCEPT ![r].logoutCb = FALSE]
    /\ UNCHANGED <<users, nextId, served, loggedOut, denied>>

\* a destroy callback that hands its error to the error path
DestroyCbForwardsError(r) ==
    /\ req[r].pc = "destroy"
    /\ \E err \in Outcomes :
         Charge(err) /\
         LET t == req[r].token
         IN  /\ sessions' = IF err THEN sessions ELSE Drop(t)
             /\ denied' = IF err THEN denied ELSE [denied EXCEPT ![t] = ""]
             /\ req' = [req EXCEPT ![r] =
                          IF err
                          THEN Failed(req[r])
                          ELSE [Done(req[r], "redirect", "/") EXCEPT !.user = 0]]
             /\ loggedOut' = loggedOut \cup {t}
    /\ UNCHANGED <<users, nextId, served>>

\* a destroy that only unsets the identity reference of the record
DestroyCbUnsetsIdentity(r) ==
    /\ req[r].pc = "destroy"
    /\ \E err \in Outcomes :
         Charge(err) /\
         LET t == req[r].token
         IN  /\ sessions' = IF ~err /\ t \in DOMAIN sessions
                            THEN Put(t, [sessions[t] EXCEPT !.user = 0])
                            ELSE sessions
             /\ denied' = IF err THEN denied ELSE [denied EXCEPT ![t] = ""]
             /\ req' = [req EXCEPT ![r] =
                          [Done(req[r], "redirect", "/")
                             EXCEPT !.user = 0, !.fault = err]]
             /\ loggedOut' = loggedOut \cup {t}
    /\ UNCHANGED <<users, nextId, served>>

\* a destroy that empties the whole session store
DestroyCbClearsStore(r) ==
    /\ req[r].pc = "destroy"
    /\ \E err \in Outcomes :
         Charge(err) /\
         LET t == req[r].token
         IN  /\ sessions' = IF err THEN sessions ELSE [x \in {} |-> NewSession]
             /\ denied' = IF err THEN denied ELSE [denied EXCEPT ![t] = ""]
             /\ req' = [req EXCEPT ![r] =
                          [Done(req[r], "redirect", "/")
                             EXCEPT !.user = 0, !.fault = err]]
             /\ loggedOut' = loggedOut \cup {t}
    /\ UNCHANGED <<users, nextId, served>>

\* the callback of req.session.destroy
DestroyCb(r) ==
    /\ req[r].pc = "destroy"
    /\ \E err \in Outcomes :
         Charge(err) /\
         LET t == req[r].token
         IN  /\ sessions' = IF err THEN sessions ELSE Drop(t)
             /\ denied' = IF err THEN denied ELSE [denied EXCEPT ![t] = ""]
             /\ req' = [req EXCEPT ![r] =
                          [Done(req[r], "redirect", "/") EXCEPT !.user = 0,
                                                           !.fault = err]]
             /\ loggedOut' = loggedOut \cup {t}
    /\ UNCHANGED <<users, nextId, served>>

\* validator.isLength(password, { min: 8 })
MinPasswordLength == 8

\* the checks of a postSignup that does not compare the confirmation
SignupValidationErrorsNoConfirm(body) ==
    (IF ~isEmail(body.email)
     THEN {Msg("errors", "Please enter a valid email address.", <<>>)}
     ELSE {})
    \cup
    (IF ~isLength(body.password, MinPasswordLength)
     THEN {Msg("errors", "Password must be at least 8 characters long", <<>>)}
     ELSE {})

\* the checks of postSignup on the submitted form
SignupValidationErrors(body) ==
    (IF ~isEmail(body.email)
     THEN {Msg("errors", "Please enter a valid email address.", <<>>)}
     ELSE {})
    \cup
    (IF ~isLength(body.password, MinPasswordLength)
     THEN {Msg("errors", "Password must be at least 8 characters long", <<>>)}
     ELSE {})
    \cup
    (IF body.password # body.confirmPassword
     THEN {Msg("errors", "Passwords do not match", <<>>)}
     ELSE {})

\* postSignup up to the call of User.findOne
postSignup(r) ==
    /\ Arrive(r)
    /\ \E t \in Tokens, body \in SignupForms :
          LET q == Fresh("postSignup", t)
              validationErrors == SignupValidationErrors(body)
              email == normalizeEmail(body.email)
          IN  IF validationErrors # {}
              THEN /\ sessions' = Flash(Loaded(t), t, validationErrors)
                   /\ req' = [req EXCEPT ![r] =
                                [Done(q, "redirect", "../signup")
                                   EXCEPT !.flashed = validationErrors,
                                          !.body = body]]
                   /\ UNCHANGED nextId
              ELSE /\ req' = [req EXCEPT ![r] =
                                [q EXCEPT !.body = body,
                                          !.doc = [id |-> nextId,
                                                   userName |-> body.userName,
                                                   email |-> email,
                                                   password |-> body.password],
                                          !.modified = TRUE,
                                          !.pc = "signupFindOne"]]
                   /\ nextId' = nextId + 1
                   /\ sessions' = Loaded(t)
    /\ UNCHANGED <<users, loggedOut, denied, faults>>

\* a lookup callback that redirects for an existing user without
\* returning, and goes on to the save
SignupFindOneFallsThrough(r) ==
    /\ req[r].pc = "signupFindOne"
    /\ \E err \in Outcomes :
         Charge(err) /\
         IF err
         THEN /\ req' = [req EXCEPT ![r] = Failed(req[r])]
              /\ UNCHANGED sessions
         ELSE IF FindByEmailOrName(req[r].doc.email, req[r].doc.userName) # {}
         THEN LET info == Msg("errors", "Account with that email address or username already exists.", <<>>)
              IN  /\ sessions' = Flash(sessions, req[r].token, {info})
                  /\ req' = [req EXCEPT ![r].resp = Redirect("../signup"),
                                        ![r].sent = @ + 1,
                                        ![r].flashed = {info},
                                        ![r].reason = "duplicate",
                                        ![r].pc = "preSave"]
         ELSE /\ req' = [req EXCEPT ![r].pc = "preSave"]
              /\ UNCHANGED sessions
    /\ UNCHANGED <<users, nextId, served, loggedOut, denied>>

\* the callback of User.findOne({ $or: [...] }) in postSignup
SignupFindOne(r) ==
    /\ req[r].pc = "signupFindOne"
    /\ \E err \in Outcomes :
         Charge(err) /\
         IF err
         THEN /\ req' = [req EXCEPT ![r] = Failed(req[r])]
              /\ UNCHANGED sessions
         ELSE IF FindByEmailOrName(req[r].doc.email, req[r].doc.userName) # {}
         THEN LET info == Msg("errors", "Account with that email address or username already exists.", <<>>)
              IN  /\ sessions' = Flash(sessions, req[r].token, {info})
                  /\ req' = [req EXCEPT ![r] =
                               [Done(req[r], "redirect", "../signup")
                                  EXCEPT !.flashed = {info},
                                         !.reason = "duplicate",
                                         !.body = req[r].body]]
         ELSE /\ req' = [req EXCEPT ![r].pc = "preSave"]
              /\ UNCHANGED sessions
    /\ UNCHANGED <<users, nextId, served, loggedOut, denied>>

\* a pre-save hook that goes on to the insert when bcrypt reports an error
SavePreHookProceedsOnError(r) ==
    /\ req[r].pc = "preSave"
    /\ \E err \in Outcomes, salt \in Salts :
         Charge(err) /\
         IF err /\ req[r].modified
         THEN req' = [req EXCEPT ![r].pc = "insert"]
         ELSE /\ ~err
              /\ req' = [req EXCEPT
                           ![r].doc = PreSave(req[r].doc, req[r].modified, salt),
                           ![r].pc = "insert"]
    /\ UNCHANGED <<users, sessions, nextId, served, loggedOut, denied>>

\* user.save: the pre-save hook (bcrypt.genSalt, then bcrypt.hash)
SavePreHook(r) ==
    /\ req[r].pc = "preSave"
    /\ \E err \in Outcomes, salt \in Salts :
         Charge(err) /\
         IF err /\ req[r].modified
         THEN req' = [req EXCEPT ![r] =
                        [Failed(req[r]) EXCEPT !.reason = "hashError"]]
         ELSE /\ ~err
              /\ req' = [req EXCEPT
                           ![r].doc = PreSave(req[r].doc, req[r].modified, salt),
                           ![r].pc = "insert"]
    /\ UNCHANGED <<users, sessions, nextId, served, loggedOut, denied>>

\* user.save: the insert, under the unique indexes of the schema
SaveInsert(r) ==
    /\ req[r].pc = "insert"
    /\ \E err \in Outcomes :
         Charge(err) /\
         IF err
         THEN /\ req' = [req EXCEPT ![r] = Failed(req[r])]
              /\ UNCHANGED users
         ELSE IF DuplicateKey(users, req[r].doc)
         THEN \* the duplicate-key error of the index reaches next(err)
              /\ req' = [req EXCEPT ![r] =
                           [Done(req[r], "error", "") EXCEPT !.reason = "duplicateKey"]]
              /\ UNCHANGED users
         ELSE /\ users' = users \cup {req[r].doc}
              /\ req' = [req EXCEPT ![r].pc = "signupLogIn",
                                    ![r].modified = FALSE,
                                    ![r].reason = "created"]
    /\ UNCHANGED <<sessions, nextId, served, loggedOut, denied>>

\* a signup that redirects without establishing the session
SignupLogInSkipsLogIn(r) ==
    /\ req[r].pc = "signupLogIn"
    /\ \E err \in Outcomes :
         Charge(err) /\
         IF err
         THEN /\ req' = [req EXCEPT ![r] = Failed(req[r])]
              /\ UNCHANGED <<sessions, loggedOut, denied>>
         ELSE LET t == req[r].token
              IN  /\ sessions' = sessions
                  /\ req' = [req EXCEPT ![r] = Done(req[r], "redirect", "/todos")]
                  /\ loggedOut' = loggedOut \ {t}
                  /\ denied' = [denied EXCEPT ![t] = ""]
    /\ UNCHANGED <<users, nextId, served>>

\* req.logIn(user, cb) of postSignup and its callback
SignupLogIn(r) ==
    /\ req[r].pc = "signupLogIn"
    /\ \E err \in Outcomes :
         Charge(err) /\
         IF err
         THEN /\ req' = [req EXCEPT ![r] = Failed(req[r])]
              /\ UNCHANGED <<sessions, loggedOut, denied>>
         ELSE LET t == req[r].token
              IN  /\ sessions' = Put(t, [SessionOf(t) EXCEPT
                                           !.user = serializeUser(req[r].doc)])
                  /\ req' = [req EXCEPT ![r] =
                               [Done(req[r], "redirect", "/todos")
                                  EXCEPT !.user = req[r].doc.id]]
                  /\ loggedOut' = loggedOut \ {t}
                  /\ denied' = [denied EXCEPT ![t] = ""]
    /\ UNCHANGED <<users, nextId, served>>

----------------------------------------------------------------------------
(* The program *)

Next ==
    \E r \in Slots :
       \/ DeserializeFails(r)
       \/ TodosRouter(r)
       \/ getLogin(r)
       \/ getSignup(r)
       \/ postLogin(r)
       \/ StrategyFindOne(r)
       \/ StrategyCompare(r)
       \/ LoginLogIn(r)
       \/ logout(r)
       \/ LogoutCb(r)
       \/ DestroyCb(r)
       \/ postSignup(r)
       \/ SignupFindOne(r)
       \/ SavePreHook(r)
       \/ SaveInsert(r)
       \/ SignupLogIn(r)

Spec == Init /\ [][Next]_vars

\* every store, hash and session operation that was started calls back
Callbacks(r) ==
    \/ StrategyFindOne(r)
    \/ StrategyCompare(r)
    \/ LoginLogIn(r)
    \/ LogoutCb(r)
    \/ DestroyCb(r)
    \/ SignupFindOne(r)
    \/ SavePreHook(r)
    \/ SaveInsert(r)
    \/ SignupLogIn(r)

FairSpec == Spec /\ \A r \in Slots : WF_vars(Callbacks(r))

----------------------------------------------------------------------------
(* UserSchema.pre('save') on a document that is already stored.  No         *)
(* controller of the repository saves a stored document, so the hook is     *)
(* applied here to documents drawn from a bounded set of inputs.            *)

\* an identity a signup has stored
StoredUser ==
    [id |-> 2, userName |-> "alice", email |-> E_a,
     password |-> bcryptHash(P_long1, "s1")]

\* a stored document as changed before save(), with isModified('password')
ResaveInputs ==
    UNION {{<<u, FALSE>>,
            <<[u EXCEPT !.userName = "alicia"], FALSE>>,
            <<[u EXCEPT !.userName = "bob"], FALSE>>,
            <<[u EXCEPT !.password = P_long2], TRUE>>,
            <<[u EXCEPT !.password = P_long1, !.userName = "alicia"], TRUE>>}
           : u \in {ProvidedUser, StoredUser}}

\* a save() of a stored document is about to run its hook
ResaveInit ==
    /\ users = {ProvidedUser, StoredUser}
    /\ sessions = [t \in {"t2"} |-> StaleSession]
    /\ \E in \in ResaveInputs :
          req = [r \in Slots |->
                   IF r = 1
                   THEN [Idle EXCEPT !.pc = "resave", !.doc = in[1],
                                     !.modified = in[2]]
                   ELSE Idle]
    /\ nextId = 3
    /\ served = MaxRequests
    /\ loggedOut = {}
    /\ denied = [t \in Tokens |-> ""]
    /\ faults = 0

\* save() of a stored document: the pre-save hook, then the update under the
\* unique indexes
Resave(r) ==
    /\ req[r].pc = "resave"
    /\ \E err \in Outcomes, salt \in Salts :
         Charge(err) /\
         LET stored == FindById(req[r].doc.id)
             hooked == PreSave(req[r].doc, req[r].modified, salt)
         IN  IF err
             THEN /\ req' = [req EXCEPT ![r].pc = "resaved", ![r].fault = TRUE]
                  /\ UNCHANGED users
             ELSE IF DuplicateKey(users \ stored, hooked)
             THEN /\ req' = [req EXCEPT ![r].pc = "resaved",
                                        ![r].reason = "duplicateKey"]
                  /\ UNCHANGED users
             ELSE /\ users' = (users \ stored) \cup {hooked}
                  /\ req' = [req EXCEPT ![r].pc = "resaved",
                                        ![r].doc = hooked,
                                        ![r].reason = "saved"]
    /\ UNCHANGED <<sessions, nextId, served, loggedOut, denied>>

SaveInit == Init \/ ResaveInit

SaveNext == Next \/ \E r \in Slots : Resave(r)

SaveSpec == SaveInit /\ [][SaveNext]_vars

----------------------------------------------------------------------------
(* Properties *)

Finished(r, route) ==
    req[r].pc = "done" /\ req[r].route = route /\ ~req[r].fault

\* C1: once a logout on token t has completed, and until a login or signup
\* succeeds on t, every GET /todos carrying t is redirected to "/" by
\* ensureAuth instead of reaching the controller.
C1_GuardFailsAfterLogout ==
    \A r \in Slots :
       (Finished(r, "getTodos") /\ req[r].afterLogout)
          => req[r].resp = Redirect("/") /\ req[r].ran = ""

\* the outcome of a signup: a created account, or the duplicate-account
\* flash with the redirect to the signup form
SignupCreated(r) ==
    req[r].reason = "created" /\ req[r].resp = Redirect("/todos")

SignupDuplicate(r) ==
    /\ req[r].resp = Redirect("../signup")
    /\ req[r].flashed =
         {Msg("errors", "Account with that email address or username already exists.", <<>>)}

PassedValidation(r) == req[r].doc.userName # ""

SameKey(r1, r2) ==
    \/ req[r1].doc.email = req[r2].doc.email
    \/ req[r1].doc.userName = req[r2].doc.userName

\* C2: of the signup requests that carry the same normalized email or the
\* same user name, however their findOne and save interleave and with no
\* operation reporting an error, exactly one creates the account and every
\* other one ends with the duplicate-account outcome.
C2_ConcurrentSignups ==
    \A r1, r2 \in Slots :
       (/\ r1 # r2
        /\ faults = 0
        /\ Finished(r1, "postSignup") /\ PassedValidation(r1)
        /\ Finished(r2, "postSignup") /\ PassedValidation(r2)
        /\ SameKey(r1, r2))
          => /\ SignupCreated(r1) \/ SignupDuplicate(r1)
             /\ SignupCreated(r2) \/ SignupDuplicate(r2)
             /\ ~(SignupCreated(r1) /\ SignupCreated(r2))

\* C3: no two stored identities share a user name or an email, whatever the
\* handlers found with findOne before they saved.
C3_UniqueIdentities ==
    \A u1, u2 \in users :
       (u1.userName = u2.userName \/ u1.email = u2.email) => u1 = u2

\* a save was refused by the index after the findOne of its request had
\* found nothing
C3_Witness ==
    \E r \in Slots : req[r].reason = "duplicateKey" /\ Cardinality(users) = 2

Plaintexts == {P_long1, P_long2, P_short, P_empty}

IsHashOf(stored, password) ==
    \E salt \in Salts : stored = bcryptHash(password, salt)

\* C4: the password field of every identity a signup persisted holds the hash
\* of the pre-save hook and never the submitted plaintext, and no document
\* reaches the insert with its plaintext.
C4_NoPlaintextStored ==
    /\ \A u \in users :
          u # ProvidedUser
             => /\ u.password \notin Plaintexts
                /\ \E p \in Plaintexts : IsHashOf(u.password, p)
    /\ \A r \in Slots :
          req[r].pc \in {"insert", "signupLogIn"}
             => /\ req[r].doc.password # req[r].body.password
                /\ IsHashOf(req[r].doc.password, req[r].body.password)
    /\ \A r \in Slots :
          req[r].pc = "signupLogIn" => req[r].doc \in users

C4_Witness ==
    \E r \in Slots :
       /\ req[r].pc = "signupLogIn"
       /\ \E u \in users : u.id = req[r].doc.id /\ u.password # req[r].body.password

\* C5: a login with an unknown email and a login with a known email and a
\* wrong password get the same redirect and the same flashed message.
C5_LoginResponsesIndistinguishable ==
    \A r1, r2 \in Slots :
       (/\ Finished(r1, "postLogin") /\ req[r1].reason = "notfound"
        /\ Finished(r2, "postLogin") /\ req[r2].reason = "mismatch")
          => /\ req[r1].resp = req[r2].resp
             /\ req[r1].flashed = req[r2].flashed

\* what the strategy may do with request r in one step, by the code's cases
StrategyStep(r) ==
    LET email == req[r].body.email
        password == req[r].body.password
        hits == {u \in users : u.email = toLowerCase(email)}
    IN  /\ (req[r].pc = "strategy" /\ req'[r].pc # "strategy")
           => \/ faults' > faults /\ req'[r].reason = "error"
                 /\ req'[r].resp.kind = "error"
              \/ /\ faults' = faults
                 /\ hits = {}
                 /\ req'[r].reason = "notfound" /\ ~req'[r].compared
                 /\ req'[r].pc = "done"
              \/ /\ faults' = faults
                 /\ \E u \in hits : u.password = NoPassword
                 /\ req'[r].reason = "nopassword" /\ ~req'[r].compared
                 /\ req'[r].pc = "done"
              \/ /\ faults' = faults
                 /\ \E u \in hits : u.password # NoPassword /\ req'[r].found = u
                 /\ req'[r].reason = "" /\ req'[r].compared
                 /\ req'[r].pc = "compare"
        /\ (req[r].pc = "compare" /\ req'[r].pc # "compare")
           => \/ faults' > faults /\ req'[r].reason = "error"
                 /\ req'[r].resp.kind = "error"
              \/ /\ faults' = faults
                 /\ IsHashOf(req[r].found.password, password)
                 /\ req'[r].reason = "authenticated"
                 /\ req'[r].pc = "logIn"
                 /\ req'[r].found = req[r].found
              \/ /\ faults' = faults
                 /\ ~IsHashOf(req[r].found.password, password)
                 /\ req'[r].reason = "mismatch"
                 /\ req'[r].pc = "done"

\* the strategy has answered Authenticated(found) for request r
Authenticated(r) == req[r].pc = "logIn"

\* C6: the strategy ends Rejected when no identity has the lowercased email,
\* Rejected without a comparison when the identity has no password hash,
\* Authenticated(that identity) when the comparison matches and Rejected when
\* it does not (a lookup or comparison that reports an error ends with that
\* error); it answers Authenticated only for the identity whose stored email
\* is the lowercased input and whose stored hash verifies the password.
C6_StrategyOutcome ==
    [][/\ \A r \in Slots : StrategyStep(r)
       /\ \A r \in Slots :
             Authenticated(r)'
                => /\ req'[r].found \in users'
                   /\ req'[r].found.email = toLowerCase(req'[r].body.email)
                   /\ IsHashOf(req'[r].found.password, req'[r].body.password)]_vars

C6_Witness ==
    \E r1, r2 \in Slots :
       /\ Authenticated(r1)
       /\ req[r1].found.email = E_a
       /\ Finished(r2, "postLogin") /\ req[r2].reason = "nopassword"

\* C7: the controller of GET /todos runs only for a request with a resolved
\* identity; ensureAuth lets the request through exactly when it is
\* authenticated and otherwise redirects to "/" without running it.
C7_GetTodosGuarded ==
    \A r \in Slots :
       /\ req[r].ran = "getTodos" => req[r].user # 0
       /\ Finished(r, "getTodos")
             => IF req[r].user # 0
                THEN req[r].ran = "getTodos" /\ req[r].resp.kind = "handled"
                ELSE req[r].ran = "" /\ req[r].resp = Redirect("/")

C7_Witness ==
    \E r1, r2 \in Slots :
       /\ Finished(r1, "getTodos") /\ req[r1].user = 0
       /\ req[r1].resp = Redirect("/")
       /\ req[r1].ran = ""
       /\ req[r2].ran = "getTodos"

\* C8: no controller of the todos router runs for a request without an
\* authenticated identity.
C8_AllTodoRoutesGuarded ==
    \A r \in Slots : req[r].ran \in TodoRoutes => req[r].user # 0

\* C9: GET /login and GET /signup redirect a request with a resolved identity
\* to "/todos" and render their form for a request without one; ensureGuest
\* lets a request through exactly when it is not authenticated.
C9_AnonymousOnlyForms ==
    \A r \in Slots :
       /\ Finished(r, "getLogin")
             => req[r].resp = IF req[r].user # 0
                              THEN Redirect("/todos")
                              ELSE [kind |-> "render", target |-> "login"]
       /\ Finished(r, "getSignup")
             => req[r].resp = IF req[r].user # 0
                              THEN Redirect("/todos")
                              ELSE [kind |-> "render", target |-> "signup"]
       /\ (ensureGuest(req[r].user) = "next") <=> (req[r].user = 0)

C9_Witness ==
    \E r \in Slots :
       /\ Finished(r, "getLogin")
       /\ req[r].user # 0
       /\ req[r].resp = Redirect("/todos")

\* C10: a successful login redirects to the URL ensureAuth denied before in
\* that session, and to "/todos" when it denied none.
C10_LoginReturnsToDeniedUrl ==
    \A r \in Slots :
       (Finished(r, "postLogin") /\ req[r].reason = "authenticated")
          => req[r].resp = Redirect(IF req[r].deniedBefore # ""
                                    THEN req[r].deniedBefore
                                    ELSE "/todos")

\* C11: every logout answers with exactly one redirect to "/", whether the
\* destroy succeeded or reported an error; the error is not forwarded to the
\* error path nor flashed, and the redirect does not wait for the callback
\* of req.logout.
C11_LogoutAlwaysRedirects ==
    /\ [][\A r \in Slots :
            (req[r].pc = "destroy" /\ req'[r].pc # "destroy")
               => /\ req'[r].pc = "done"
                  /\ req'[r].resp = Redirect("/")
                  /\ req'[r].sent = 1
                  /\ req'[r].flashed = {}
                  /\ \A t \in DOMAIN sessions' :
                        sessions'[t].flash = SessionOf(t).flash]_vars
    /\ \A r \in Slots :
          (req[r].pc = "destroy")
             ~> (req[r].pc = "done" /\ req[r].resp = Redirect("/"))

\* a logout that redirected although its destroy failed, while the callback
\* of req.logout is still to come
C11_Witness ==
    \E r \in Slots :
       /\ req[r].route = "logout"
       /\ req[r].pc = "done"
       /\ req[r].fault
       /\ req[r].resp = Redirect("/")
       /\ req[r].logoutCb

Arrives(r, route) ==
    /\ served' = served + 1
    /\ req'[r] # req[r]
    /\ req'[r].route = route
    /\ ~req'[r].fault

\* the number of shape checks the signup form fails
SignupFailedChecks(body) ==
    (IF isEmail(body.email) THEN 0 ELSE 1)
    + (IF Len(body.password) >= MinPasswordLength THEN 0 ELSE 1)
    + (IF body.password = body.confirmPassword THEN 0 ELSE 1)

\* C13: a POST /signup that fails a shape check changes neither the
\* credential store nor the identity reference of its session, looks nothing
\* up, creates nothing and logs nobody in; it flashes one message per failed
\* check and redirects back to the signup form.
C13_SignupValidationFailure ==
    [][\A r \in Slots :
         (Arrives(r, "postSignup") /\ SignupFailedChecks(req'[r].body) > 0)
            => LET t == req'[r].token
               IN  /\ req'[r].pc = "done"
                   /\ req'[r].resp = Redirect("../signup")
                   /\ req'[r].sent = 1
                   /\ req'[r].reason = ""
                   /\ users' = users
                   /\ nextId' = nextId
                   /\ SessionIn(sessions', t).user = Resolve(t)
                   /\ Cardinality(req'[r].flashed)
                         = SignupFailedChecks(req'[r].body)
                   /\ SessionIn(sessions', t).flash
                         = SessionOf(t).flash \cup req'[r].flashed
                   /\ \A x \in Tokens \ {t} :
                         SessionIn(sessions', x) = SessionOf(x)]_vars

\* a signed-in session whose signup form failed two checks at once
C13_Witness ==
    \E r \in Slots :
       /\ req[r].route = "postSignup" /\ req[r].pc = "done"
       /\ req[r].resp = Redirect("../signup")
       /\ SignupFailedChecks(req[r].body) = 2
       /\ req[r].user # 0
       /\ SessionOf(req[r].token).user = req[r].user

\* the form names a userName or, up to letter case, an email of the store
AlreadyPresent(body) ==
    \E u \in users :
       \/ u.userName = body.userName
       \/ toLowerCase(u.email) = toLowerCase(body.email)

\* the step in which the lookup of the signup in slot r calls back
SignupLookupStep(r) ==
    req[r].pc = "signupFindOne" /\ req'[r].pc # "signupFindOne"

\* C14: a POST /signup whose userName or email (compared without regard to
\* letter case) is already in the credential store creates no Identity and
\* leaves the identity reference of its session alone; it flashes the
\* generic 'already exists' message and redirects to the signup form.
C14_SignupDuplicate ==
    [][\A r \in Slots :
         (SignupLookupStep(r) /\ AlreadyPresent(req[r].body))
            => LET t == req[r].token
               IN  /\ req'[r].pc = "done"
                   /\ users' = users
                   /\ SessionIn(sessions', t).user = SessionOf(t).user
                   /\ ~req'[r].fault
                        => /\ req'[r].resp = Redirect("../signup")
                           /\ req'[r].sent = 1
                           /\ req'[r].flashed =
                                {Msg("errors", "Account with that email address or username already exists.", <<>>)}
                           /\ SessionIn(sessions', t).flash
                                = SessionOf(t).flash \cup req'[r].flashed]_vars

\* a signup refused for its email alone, which differs from the stored one
\* in letter case
C14_Witness ==
    \E r \in Slots :
       /\ req[r].route = "postSignup" /\ req[r].pc = "done"
       /\ req[r].reason = "duplicate"
       /\ req[r].resp = Redirect("../signup")
       /\ \A u \in users : u.userName # req[r].body.userName
       /\ \A u \in users : u.email # req[r].body.email
       /\ \E u \in users : u.email = toLowerCase(req[r].body.email)

\* the signup in slot r has created its Identity and sent its redirect
SignedUp(r) ==
    /\ req[r].route = "postSignup" /\ req[r].pc = "done"
    /\ req[r].reason = "created"
    /\ req[r].resp = Redirect("/todos")

\* C15: when a POST /signup that created an Identity sends its redirect to
\* /todos, its session already references exactly that Identity, and a
\* GET /todos that follows on the session as the signup left it passes
\* ensureAuth as that Identity.
C15_SignupLogsIn ==
    [][/\ \A r \in Slots :
            (req[r].pc = "signupLogIn" /\ req'[r].pc = "done" /\ ~req'[r].fault)
               => LET t == req[r].token
                      id == req[r].doc.id
                  IN  /\ req'[r].resp = Redirect("/todos")
                      /\ req'[r].sent = 1
                      /\ id # 0
                      /\ SessionIn(sessions', t).user = id
                      /\ \E u \in users' :
                            /\ u.id = id
                            /\ u.userName = req[r].body.userName
                            /\ u.email = toLowerCase(req[r].body.email)
                      /\ \A u \in users' : u.id = id => u = req[r].doc
                      /\ ensureAuth(SessionIn(sessions', t).user) = "next"
       /\ \A r, q \in Slots :
            (/\ SignedUp(r)
             /\ Arrives(q, "getTodos")
             /\ req'[q].token = req[r].token
             /\ SessionOf(req[r].token).user = req[r].user)
               => /\ req'[q].ran = "getTodos"
                  /\ req'[q].user = req[r].user
                  /\ req'[q].resp.kind = "handled"]_vars

\* a signup that created an Identity, and a GET /todos on its session that
\* was served as that Identity
C15_Witness ==
    \E r, q \in Slots :
       /\ SignedUp(r)
       /\ req[q].route = "getTodos" /\ req[q].ran = "getTodos"
       /\ req[q].token = req[r].token
       /\ req[q].user = req[r].user
       /\ req[r].user \in {u.id : u \in users} \ {ProvidedUser.id}

\* the email without the spaces around it
RECURSIVE Trim(_)
Trim(s) ==
    IF s # <<>> /\ s[1] = " " THEN Trim(Tail(s))
    ELSE IF s # <<>> /\ s[Len(s)] = " " THEN Trim(SubSeq(s, 1, Len(s) - 1))
    ELSE s

\* the normal form of an email: lowercased and trimmed
LowercasedTrimmed(email) == toLowerCase(Trim(email))

\* the step in which the login in slot r ends without an error, and the
\* form it had submitted
LoginEnds(r) ==
    /\ req'[r].route = "postLogin" /\ req'[r].pc = "done" /\ ~req'[r].fault
    /\ \/ Arrives(r, "postLogin")
       \/ req[r].route = "postLogin" /\ req[r].pc \in {"strategy", "compare", "logIn"}

Submitted(r) ==
    IF req[r].route = "postLogin" /\ req[r].pc \in {"strategy", "compare", "logIn"}
    THEN req[r].body
    ELSE req'[r].body

\* C16: a successful signup stores the lowercased, trimmed form of its email,
\* and a login whose email has the same lowercased, trimmed form as a stored
\* one and whose password is the one signed up with is Authenticated as that
\* Identity.
C16_SameNormalization ==
    [][\A r \in Slots :
         /\ (req[r].pc = "insert" /\ req'[r].pc = "signupLogIn")
               => \E u \in users' \ users :
                     u.email = LowercasedTrimmed(req[r].body.email)
         /\ LoginEnds(r)
               => \A u \in users :
                     (/\ u.email = LowercasedTrimmed(Submitted(r).email)
                      /\ IsHashOf(u.password, Submitted(r).password))
                        => /\ req[r].pc = "logIn"
                           /\ req[r].found = u
                           /\ req'[r].user = u.id]_vars

\* the step in which a request arrives in slot r on a session whose identity
\* reference resolves to no Identity, the lookup reporting no error
ArrivesStale(r) ==
    /\ served' = served + 1
    /\ req'[r] # req[r]
    /\ faults' = faults
    /\ SessionOf(req'[r].token).user # 0
    /\ \A u \in users : u.id # SessionOf(req'[r].token).user

\* C17: a session holds of its Identity only the id; deserializing what the
\* serializer stored for a stored Identity yields that Identity; a request
\* whose stored id resolves to no Identity is served as anonymous and is not
\* failed with an error.
C17_SerializeRoundTrip ==
    /\ [](\A t \in DOMAIN sessions : sessions[t].user \in Nat)
    /\ [](\A u \in users :
             /\ serializeUser(u) = u.id
             /\ deserializeUser(serializeUser(u)) = {u})
    /\ [][\A r \in Slots :
            ArrivesStale(r)
               => /\ req'[r].user = 0
                  /\ ~req'[r].fault
                  /\ req'[r].resp.kind # "error"
                  /\ req'[r].route = "getTodos"
                        => req'[r].resp = Redirect("/") /\ req'[r].ran = ""
                  /\ req'[r].route \in {"getLogin", "getSignup"}
                        => req'[r].resp.kind = "render"]_vars

\* two requests only: a GET /todos on the session whose reference resolves
\* to nothing was redirected as anonymous, and a signup has put the id of its
\* Identity into its session
C17_Witness ==
    \E r, q \in Slots :
       /\ served = 2
       /\ Finished(q, "getTodos") /\ req[q].token = "t2"
       /\ req[q].user = 0 /\ req[q].resp = Redirect("/")
       /\ SignedUp(r) /\ req[r].token = "t1"
       /\ \E u \in users : SessionOf("t1").user = serializeUser(u)
                           /\ u.id = req[r].user

\* the positions at which a login or a signup waits for a callback
CallbackPcs ==
    {"strategy", "compare", "logIn",
     "signupFindOne", "preSave", "insert", "signupLogIn"}

\* the step in which the operation the request in slot r waits for reports
\* an error
ReportsError(r) ==
    /\ req[r].route \in {"postLogin", "postSignup"}
    /\ req[r].pc \in CallbackPcs
    /\ req'[r] # req[r]
    /\ \/ faults' = faults + 1
       \/ req'[r].reason = "duplicateKey"

\* C18: an error reported by the lookup, the comparison, the hashing, the
\* save or the establishment of the session during a POST /login or a
\* POST /signup ends the request on the error path (next(err)): no redirect
\* is sent and the session store, the identity reference included, is left
\* as it was.
C18_ErrorsForwarded ==
    [][\A r \in Slots :
         ReportsError(r)
            => /\ req'[r].pc = "done"
               /\ req'[r].resp = [kind |-> "error", target |-> ""]
               /\ req'[r].sent = 1
               /\ req'[r].flashed = {}
               /\ req'[r].user = req[r].user
               /\ sessions' = sessions
               /\ users' = users]_vars

\* a signup whose Identity was saved and whose session could not be
\* established: it ended on the error path and its session is anonymous
C18_Witness ==
    \E r \in Slots :
       /\ req[r].route = "postSignup" /\ req[r].pc = "done"
       /\ req[r].fault /\ req[r].reason = "created"
       /\ req[r].resp.kind = "error"
       /\ SessionOf(req[r].token).user = 0
       /\ \E u \in users : u.userName = req[r].doc.userName

\* C19: when the generation of the salt or the hashing fails during a save,
\* the save ends with that error and persists nothing; a document reaches
\* the insert only from a hook that reported no error, with the hash in
\* place of its plaintext, and only such a document is ever written.
C19_HashFailureAbortsSave ==
    [][/\ \A r \in Slots :
            /\ (req[r].pc = "preSave" /\ req'[r] # req[r]
                                      /\ faults' = faults + 1)
                  => /\ req'[r].pc = "done"
                     /\ req'[r].resp.kind = "error"
                     /\ req'[r].fault
                     /\ users' = users
                     /\ sessions' = sessions
            /\ (req[r].pc = "preSave" /\ req'[r].pc = "insert")
                  => /\ faults' = faults
                     /\ req'[r].doc.password # req[r].body.password
                     /\ IsHashOf(req'[r].doc.password, req[r].body.password)
       /\ users' # users
            => \E r \in Slots :
                  /\ req[r].pc = "insert"
                  /\ users' = users \cup {req[r].doc}
                  /\ IsHashOf(req[r].doc.password, req[r].body.password)]_vars

\* a signup whose hashing failed: it ended on the error path and the store
\* has no document of its userName or email
C19_Witness ==
    \E r \in Slots :
       /\ req[r].route = "postSignup" /\ req[r].pc = "done"
       /\ req[r].reason = "hashError"
       /\ req[r].resp.kind = "error"
       /\ \A u \in users : /\ u.userName # req[r].doc.userName
                           /\ u.email # req[r].doc.email

\* the session of token t is as before, but for the messages flashed
OnlyFlashed(t, msgs) ==
    /\ SessionIn(sessions', t).returnTo = SessionOf(t).returnTo
    /\ SessionIn(sessions', t).flash = SessionOf(t).flash \cup msgs
    /\ \A x \in Tokens \ {t} : SessionIn(sessions', x) = SessionOf(x)

\* C20: a POST /login that fails validation, or that the strategy rejects,
\* leaves the credential store and the identity reference of its session as
\* they were (an anonymous session stays anonymous, one authenticated as A
\* stays A), flashes its error and redirects to /login; after a validation
\* failure the strategy is not invoked.
C20_FailedLoginChangesNothing ==
    [][\A r \in Slots :
         /\ (/\ Arrives(r, "postLogin")
             /\ (~isEmail(req'[r].body.email) \/ Len(req'[r].body.password) = 0))
               => LET t == req'[r].token
                  IN  /\ req'[r].pc = "done"
                      /\ req'[r].resp = Redirect("/login")
                      /\ req'[r].sent = 1
                      /\ req'[r].reason = "" /\ ~req'[r].compared
                      /\ req'[r].found = NoDoc
                      /\ req'[r].flashed # {}
                      /\ users' = users
                      /\ SessionIn(sessions', t).user = Resolve(t)
                      /\ OnlyFlashed(t, req'[r].flashed)
         /\ (/\ req[r].pc \in {"strategy", "compare"}
             /\ req'[r].pc = "done" /\ ~req'[r].fault)
               => LET t == req[r].token
                  IN  /\ req'[r].resp = Redirect("/login")
                      /\ req'[r].sent = 1
                      /\ Cardinality(req'[r].flashed) = 1
                      /\ users' = users
                      /\ SessionIn(sessions', t).user = SessionOf(t).user
                      /\ req'[r].user = req[r].user
                      /\ OnlyFlashed(t, req'[r].flashed)]_vars

\* a login with a wrong password on a session that is signed in: it was
\* rejected and the session still references its Identity
C20_Witness ==
    \E r \in Slots :
       /\ Finished(r, "postLogin")
       /\ req[r].reason = "mismatch"
       /\ req[r].resp = Redirect("/login")
       /\ req[r].user # 0
       /\ SessionOf(req[r].token).user = req[r].user
       /\ req[r].flashed \subseteq SessionOf(req[r].token).flash

\* the step is a save of the stored document of that id with its password
\* field modified
SavesModifiedPassword(id) ==
    \E r \in Slots :
       /\ req[r].pc = "resave" /\ req'[r].pc = "resaved"
       /\ req[r].doc.id = id
       /\ req[r].modified

\* C21: the stored password hash of an Identity changes only in a save whose
\* password field was modified; a save with the field unmodified hands the
\* store the hash it already holds, and no step removes an Identity.
C21_HashChangesOnlyWhenModified ==
    [][/\ \A u \in users :
            \E v \in users' :
               /\ v.id = u.id
               /\ v.password # u.password => SavesModifiedPassword(u.id)
       /\ \A r \in Slots :
            (req[r].pc = "resave" /\ req'[r].pc = "resaved" /\ ~req[r].modified)
               => /\ req'[r].doc.password = req[r].doc.password
                  /\ \A u \in users, v \in users' :
                        (u.id = req[r].doc.id /\ v.id = u.id)
                           => v.password = u.password
       /\ \A r \in Slots :
            (req[r].pc = "preSave" /\ req'[r].pc = "insert" /\ ~req[r].modified)
               => req'[r].doc = req[r].doc]_vars

\* a stored document was saved under a new userName with its password field
\* unmodified, and the store holds it with the hash it had
C21_Witness ==
    \E r \in Slots :
       /\ req[r].pc = "resaved" /\ req[r].reason = "saved"
       /\ ~req[r].modified
       /\ req[r].doc \in users
       /\ req[r].doc.userName = "alicia"
       /\ req[r].doc.password = StoredUser.password

\* the step completes, in slot r, a login on token t whose strategy had
\* answered Authenticated(the identity of that id)
LoginEstablishes(r, t, id) ==
    /\ req[r].route = "postLogin" /\ req[r].pc = "logIn"
    /\ req'[r].pc = "done"
    /\ req[r].token = t
    /\ req[r].found.id = id
    /\ req[r].found \in users
    /\ req[r].found.email = toLowerCase(req[r].body.email)
    /\ IsHashOf(req[r].found.password, req[r].body.password)

\* the step completes, in slot r, a signup on token t that created the
\* identity of that id
SignupEstablishes(r, t, id) ==
    /\ req[r].route = "postSignup" /\ req[r].pc = "signupLogIn"
    /\ req'[r].pc = "done"
    /\ req[r].token = t
    /\ req[r].reason = "created"
    /\ req[r].doc.id = id
    /\ req[r].doc \in users

\* C22: the Identity a session references is set or changed only by the
\* completion, on that session, of a login whose strategy answered
\* Authenticated for that Identity with the password verified against its
\* stored hash, or of a signup that created that Identity; no other step
\* makes a session reference an Identity.
C22_IdentityOnlyByLoginOrSignup ==
    /\ \A t \in Tokens : Resolve(t) = 0
    /\ [][\A t \in Tokens :
            (Resolve(t)' # Resolve(t) /\ Resolve(t)' # 0)
               => \E r \in Slots :
                     \/ LoginEstablishes(r, t, Resolve(t)')
                     \/ SignupEstablishes(r, t, Resolve(t)')]_vars

\* a session that references the Identity a login on it was Authenticated as
C22_Witness ==
    \E r \in Slots :
       /\ Finished(r, "postLogin")
       /\ req[r].reason = "authenticated"
       /\ req[r].user # 0
       /\ Resolve(req[r].token) = req[r].user

\* a step of the logout in slot r: its arrival, the callback of req.logout
\* or the callback of the destroy
LogoutStep(r) ==
    \/ Arrives(r, "logout")
    \/ /\ req[r].route = "logout"
       /\ req'[r] # req[r]
       /\ served' = served

\* the token of the logout that takes the step
LogoutToken(r) ==
    IF served' = served THEN req[r].token ELSE req'[r].token

\* C23: a logout touches the session of its own token only: every other
\* session keeps its record, its identity reference and its answer from
\* ensureAuth, and the credential store is unchanged.
C23_LogoutOnlyOwnSession ==
    [][\A r \in Slots :
         LogoutStep(r)
            => /\ users' = users
               /\ \A x \in Tokens \ {LogoutToken(r)} :
                     /\ SessionIn(sessions', x) = SessionOf(x)
                     /\ (x \in DOMAIN sessions') = (x \in DOMAIN sessions)
                     /\ Resolve(x)' = Resolve(x)
                     /\ ensureAuth(Resolve(x)') = ensureAuth(Resolve(x))]_vars

\* two sessions referenced the same Identity; one has logged out and its
\* record is gone, the other still references the Identity and passes
\* ensureAuth
C23_Witness ==
    \E r \in Slots, x \in Tokens :
       /\ Finished(r, "logout")
       /\ req[r].was # 0
       /\ req[r].token \notin DOMAIN sessions
       /\ x # req[r].token
       /\ Resolve(x) = req[r].was
       /\ ensureAuth(Resolve(x)) = "next"

\* the ways a request can end: a redirect, a render, next() into the
\* controller of a guarded route, next(err)
Outcome == {"redirect", "render", "handled", "error"}

\* C24: every callback being invoked, every request ends with exactly one
\* outcome (a redirect, a render, next() or next(err)): a request in flight
\* has sent nothing, a finished one has sent one response that no later step
\* replaces or repeats, every request in flight finishes, and each guard
\* answers either next or redirect.
C24_ExactlyOneOutcome ==
    /\ [](\A r \in Slots :
            /\ req[r].pc = "done"
                  => req[r].sent = 1 /\ req[r].resp.kind \in Outcome
            /\ req[r].pc # "done"
                  => req[r].sent = 0 /\ req[r].resp = NoResp
            /\ ensureAuth(req[r].user) \in {"next", "redirect"}
            /\ ensureGuest(req[r].user) \in {"next", "redirect"}
            /\ ensureAuth(req[r].user) # ensureGuest(req[r].user))
    /\ [][\A r \in Slots :
            (req[r].pc = "done" /\ served' = served)
               => /\ req'[r].pc = "done"
                  /\ req'[r].resp = req[r].resp
                  /\ req'[r].sent = 1]_vars
    /\ \A r \in Slots : []<>(req[r].pc \in {"idle", "done"})

\* an authenticated login and a logout, each finished with its one response
\* after all of their callbacks
C24_Witness ==
    \E r, q \in Slots :
       /\ Finished(r, "postLogin") /\ req[r].reason = "authenticated"
       /\ req[r].sent = 1 /\ req[r].resp.kind = "redirect"
       /\ Finished(q, "logout") /\ ~req[q].logoutCb
       /\ req[q].sent = 1 /\ req[q].resp = Redirect("/")

====
